---- MODULE Spec2Model ----
(***************************************************************************)
(* Model of the EmulatorJS input driver of RetroArch                       *)
(* (input/drivers/emulatorjs_input.c), built without WEB_SCALING.          *)
(*                                                                         *)
(* The driver instance (rwebinput_input_t) is the variables mouse, touch,  *)
(* keyboard and keys; the process-wide virtual gamepad table is stuff.     *)
(* Every C function is an operator from the values it reads to the values  *)
(* it writes; the actions further down apply these operators to the        *)
(* variables and record, in history variables, what the environment did.   *)
(*                                                                         *)
(* Representation:                                                         *)
(*   - uint8_t buttons is the set of its 1 bits (bit n set  <=>  n in set);*)
(*   - bool keys[RETROK_LAST] is the set of indices that hold true;        *)
(*   - the double scroll counters hold integers (wheel deltas are drawn    *)
(*     from integers, whose sums a double represents exactly);             *)
(*   - a uint32_t CRC is the pair of its high and low 16 bits, since the   *)
(*     checker's integers are narrower than 32 unsigned bits.              *)
(***************************************************************************)
EXTENDS Integers, Sequences, FiniteSets, TLC

VARIABLES
    mouse,        \* rwebinput->mouse
    touch,        \* rwebinput->touch
    keyboard,     \* rwebinput->keyboard (events buffer and count)
    keys,         \* rwebinput->keys
    stuff,        \* the global virtual gamepad table
    last_op,      \* history: the operation that produced this state
    frame_events, \* history: events dispatched since the last poll
    frame_sum,    \* history: motion received since the last poll
    latched_sum,  \* history: motion received in the frame closed by the last poll
    wheel_hist,   \* history: the wheel events of the open and of the closed frame
    polls,        \* history: whether poll has run yet
    phys,         \* history: mouse buttons whose last button event was mousedown
    dom_keys,     \* history: keydown/keyup DOM events since the last poll
    key_held,     \* history: codes whose last DOM key event was keydown
    surface,      \* history: identifiers of the fingers on the touch surface
    scen,         \* history: progress of the double-tap scenario
    drag,         \* history: progress of the drag scenario
    tap,          \* history: the tap sequence opened by the latest touchstart
    pre_poll,     \* history: keys and queued events as the last poll found them
    inj,          \* history: per (user, id), the last injected down value
    instance      \* whether a driver instance exists, and how many init has built

vars == <<mouse, touch, keyboard, keys, stuff, last_op, frame_events, frame_sum,
          latched_sum, wheel_hist, polls, phys, dom_keys, key_held, surface, scen,
          drag, tap,
          pre_poll, inj, instance>>

driver == <<mouse, touch, keyboard, keys>>

(***************************************************************************)
(* Integer conversions                                                     *)
(***************************************************************************)
Abs(n) == IF n < 0 THEN -n ELSE n

\* a + b in a 32-bit signed field (signed, long on wasm32).  The model's
\* inputs keep every sum far inside the 32-bit range, where it is a + b.
Add32(a, b) == a + b

\* The (int16_t) cast of rwebinput_mouse_state.
ToInt16(n) == ((n + 32768) % 65536) - 32768

BoolToInt(b) == IF b THEN 1 ELSE 0

(***************************************************************************)
(* Mouse button numbers                                                    *)
(***************************************************************************)
RWEBINPUT_MOUSE_BTNL == 0
RWEBINPUT_MOUSE_BTNM == 1
RWEBINPUT_MOUSE_BTNR == 2
RWEBINPUT_MOUSE_BTN4 == 3
RWEBINPUT_MOUSE_BTN5 == 4

\* (uint8_t)(1 << button), as the set of its 1 bits.
ButtonMask(button) == IF button \in 0..7 THEN {button} ELSE {}

(***************************************************************************)
(* calloc(1, sizeof(rwebinput_input_t)): every field zero                  *)
(***************************************************************************)
ZeroMouse ==
    [ pending_scroll_x |-> 0, pending_scroll_y |-> 0,
      scroll_x |-> 0, scroll_y |-> 0,
      x |-> 0, y |-> 0,
      pending_delta_x |-> 0, pending_delta_y |-> 0,
      delta_x |-> 0, delta_y |-> 0,
      buttons |-> {} ]

ZeroTouch ==
    [ touch_id |-> 0, last_canvasX |-> 0, last_canvasY |-> 0, down |-> FALSE,
      last_touchdown_id |-> 0, last_touchdown_location |-> 0,
      clicked_yet |-> FALSE ]

ZeroKeyboard == [ events |-> << >>, count |-> 0, max_size |-> 0 ]

(***************************************************************************)
(* rwebinput_mouse_cb: e = [targetX, targetY, movementX, movementY, button]*)
(***************************************************************************)
MouseButtonsMissingUp(m, event_type, e) ==
    IF event_type = "mousedown" THEN m.buttons \cup ButtonMask(e.button)
    ELSE m.buttons

MouseButtons(m, event_type, e) ==
    IF event_type = "mousedown" THEN m.buttons \cup ButtonMask(e.button)
    ELSE IF event_type = "mouseup" THEN m.buttons \ ButtonMask(e.button)
    ELSE m.buttons

rwebinput_mouse_cb(m, event_type, e) ==
    [ m EXCEPT !.x = e.targetX,
               !.y = e.targetY,
               !.pending_delta_x = Add32(@, e.movementX),
               !.pending_delta_y = Add32(@, e.movementY),
               !.buttons = MouseButtons(m, event_type, e) ]

(***************************************************************************)
(* rwebinput_wheel_cb: e = [deltaX, deltaY]                                *)
(***************************************************************************)
\* The callback storing the event's deltas instead of adding them.
WheelCbOverwrites(m, e) ==
    [ m EXCEPT !.pending_scroll_x = e.deltaX,
               !.pending_scroll_y = e.deltaY ]

rwebinput_wheel_cb(m, e) ==
    [ m EXCEPT !.pending_scroll_x = @ + e.deltaX,
               !.pending_scroll_y = @ + e.deltaY ]

(***************************************************************************)
(* rwebinput_touch_cb.  touches is the event's array of touch points       *)
(* [identifier, canvasX, canvasY, isChanged]; the result is the pair       *)
(* [touch, mouse] the handler leaves behind.                               *)
(***************************************************************************)
\* The selection loop: the index of the last changed touch, 0 if there is none.
RECURSIVE LastChanged(_, _)
LastChanged(touches, i) ==
    IF i = 0 THEN 0
    ELSE IF touches[i].isChanged THEN i
    ELSE LastChanged(touches, i - 1)

TouchTapThreshold == 25

\* Lines 311-315: a touchstart of another identifier opens a new tap sequence.
TouchNewTap(t, event_type, ct) ==
    IF event_type = "touchstart" /\ t.last_touchdown_id # ct.identifier
    THEN [ t EXCEPT !.clicked_yet = FALSE,
                    !.last_touchdown_id = ct.identifier,
                    !.last_touchdown_location = ct.canvasX + ct.canvasY ]
    ELSE t

\* Lines 316-318: a touchstart while the tap is armed presses the left button.
TouchPressNever(t, m, event_type) == m

TouchPress(t, m, event_type) ==
    IF event_type = "touchstart" /\ t.clicked_yet
    THEN [ m EXCEPT !.buttons = @ \cup {RWEBINPUT_MOUSE_BTNL} ]
    ELSE m

\* Lines 319-325: a move of the tap's finger beyond the threshold cancels the tap.
TouchDragCancel(t, event_type, ct) ==
    IF event_type = "touchmove" /\ t.last_touchdown_id = ct.identifier
    THEN LET u == t.last_touchdown_location - (ct.canvasX + ct.canvasY)
         IN  IF Abs(u) > TouchTapThreshold
             THEN [ t EXCEPT !.last_touchdown_id = -1 ]
             ELSE t
    ELSE t

TouchEndNoRelease(t, m, ct) ==
    LET t1 == IF ct.identifier = t.touch_id THEN [ t EXCEPT !.down = FALSE ] ELSE t
    IN  IF t1.last_touchdown_id = ct.identifier /\ ~t1.clicked_yet
        THEN [ touch |-> [ t1 EXCEPT !.clicked_yet = TRUE ], mouse |-> m ]
        ELSE IF t1.clicked_yet
        THEN [ touch |-> [ t1 EXCEPT !.clicked_yet = FALSE,
                                     !.last_touchdown_id = -1 ],
               mouse |-> m ]
        ELSE [ touch |-> t1, mouse |-> m ]

TouchEndClearsAll(t, m, ct) ==
    LET t1 == IF ct.identifier = t.touch_id THEN [ t EXCEPT !.down = FALSE ] ELSE t
    IN  IF t1.last_touchdown_id = ct.identifier /\ ~t1.clicked_yet
        THEN [ touch |-> [ t1 EXCEPT !.clicked_yet = TRUE ], mouse |-> m ]
        ELSE IF t1.clicked_yet
        THEN [ touch |-> [ t1 EXCEPT !.clicked_yet = FALSE,
                                     !.last_touchdown_id = -1 ],
               mouse |-> [ m EXCEPT !.buttons = {} ] ]
        ELSE [ touch |-> t1, mouse |-> m ]

\* Lines 327-338: touchend and touchcancel.
TouchEnd(t, m, ct) ==
    LET t1 == IF ct.identifier = t.touch_id THEN [ t EXCEPT !.down = FALSE ] ELSE t
    IN  IF t1.last_touchdown_id = ct.identifier /\ ~t1.clicked_yet
        THEN [ touch |-> [ t1 EXCEPT !.clicked_yet = TRUE ], mouse |-> m ]
        ELSE IF t1.clicked_yet
        THEN [ touch |-> [ t1 EXCEPT !.clicked_yet = FALSE,
                                     !.last_touchdown_id = -1 ],
               mouse |-> [ m EXCEPT !.buttons = @ \ {RWEBINPUT_MOUSE_BTNL} ] ]
        ELSE [ touch |-> t1, mouse |-> m ]

\* Lines 342-367: the tracked finger's touchstart and touchmove.
TouchTrack(t, m, event_type, ct) ==
    IF event_type = "touchstart"
    THEN [ touch |-> [ t EXCEPT !.down = TRUE,
                                !.touch_id = ct.identifier,
                                !.last_canvasX = ct.canvasX,
                                !.last_canvasY = ct.canvasY ],
           mouse |-> m ]
    ELSE IF event_type = "touchmove"
    THEN LET diffX == ct.canvasX - t.last_canvasX
             diffY == ct.canvasY - t.last_canvasY
         IN  [ touch |-> [ t EXCEPT !.last_canvasX = ct.canvasX,
                                    !.last_canvasY = ct.canvasY ],
               mouse |-> [ m EXCEPT !.x = ct.canvasX,
                                    !.y = ct.canvasY,
                                    !.pending_delta_x = Add32(@, diffX),
                                    !.pending_delta_y = Add32(@, diffY) ] ]
    ELSE [ touch |-> t, mouse |-> m ]

\* The callback without the multi-touch return of lines 339-341.
TouchCbTracksEveryFinger(t, m, event_type, touches) ==
    LET sel == LastChanged(touches, Len(touches))
    IN  IF sel = 0 THEN [ touch |-> t, mouse |-> m ]
        ELSE
        LET ct == touches[sel]
            t1 == TouchNewTap(t, event_type, ct)
            m1 == TouchPress(t1, m, event_type)
            t2 == TouchDragCancel(t1, event_type, ct)
        IN  IF event_type \in {"touchcancel", "touchend"}
            THEN TouchEnd(t2, m1, ct)
            ELSE TouchTrack(t2, m1, event_type, ct)

rwebinput_touch_cb(t, m, event_type, touches) ==
    LET sel == LastChanged(touches, Len(touches))
    IN  IF sel = 0 THEN [ touch |-> t, mouse |-> m ]
        ELSE
        LET ct == touches[sel]
            t1 == TouchNewTap(t, event_type, ct)
            m1 == TouchPress(t1, m, event_type)
            t2 == TouchDragCancel(t1, event_type, ct)
        IN  IF event_type \in {"touchcancel", "touchend"}
            THEN TouchEnd(t2, m1, ct)
            ELSE IF t2.down /\ ct.identifier # t2.touch_id
            THEN [ touch |-> t2, mouse |-> m1 ]
            ELSE TouchTrack(t2, m1, event_type, ct)

(***************************************************************************)
(* The key table and its CRC32 look-up table                               *)
(***************************************************************************)
RETROK_UNKNOWN == 0
RETROK_LEFT == 276
RETROK_LAST == 324

\* rwebinput_key_to_code_map: <<code, its UTF-8 bytes, retro key>>.
rwebinput_key_to_code_map ==
    <<
      <<"KeyA", <<75, 101, 121, 65>>, 97>>,
      <<"KeyB", <<75, 101, 121, 66>>, 98>>,
      <<"KeyC", <<75, 101, 121, 67>>, 99>>,
      <<"KeyD", <<75, 101, 121, 68>>, 100>>,
      <<"KeyE", <<75, 101, 121, 69>>, 101>>,
      <<"KeyF", <<75, 101, 121, 70>>, 102>>,
      <<"KeyG", <<75, 101, 121, 71>>, 103>>,
      <<"KeyH", <<75, 101, 121, 72>>, 104>>,
      <<"KeyI", <<75, 101, 121, 73>>, 105>>,
      <<"KeyJ", <<75, 101, 121, 74>>, 106>>,
      <<"KeyK", <<75, 101, 121, 75>>, 107>>,
      <<"KeyL", <<75, 101, 121, 76>>, 108>>,
      <<"KeyM", <<75, 101, 121, 77>>, 109>>,
      <<"KeyN", <<75, 101, 121, 78>>, 110>>,
      <<"KeyO", <<75, 101, 121, 79>>, 111>>,
      <<"KeyP", <<75, 101, 121, 80>>, 112>>,
      <<"KeyQ", <<75, 101, 121, 81>>, 113>>,
      <<"KeyR", <<75, 101, 121, 82>>, 114>>,
      <<"KeyS", <<75, 101, 121, 83>>, 115>>,
      <<"KeyT", <<75, 101, 121, 84>>, 116>>,
      <<"KeyU", <<75, 101, 121, 85>>, 117>>,
      <<"KeyV", <<75, 101, 121, 86>>, 118>>,
      <<"KeyW", <<75, 101, 121, 87>>, 119>>,
      <<"KeyX", <<75, 101, 121, 88>>, 120>>,
      <<"KeyY", <<75, 101, 121, 89>>, 121>>,
      <<"KeyZ", <<75, 101, 121, 90>>, 122>>,
      <<"ArrowLeft", <<65, 114, 114, 111, 119, 76, 101, 102, 116>>, 276>>,
      <<"ArrowRight", <<65, 114, 114, 111, 119, 82, 105, 103, 104, 116>>, 275>>,
      <<"ArrowUp", <<65, 114, 114, 111, 119, 85, 112>>, 273>>,
      <<"ArrowDown", <<65, 114, 114, 111, 119, 68, 111, 119, 110>>, 274>>,
      <<"Enter", <<69, 110, 116, 101, 114>>, 13>>,
      <<"NumpadEnter", <<78, 117, 109, 112, 97, 100, 69, 110, 116, 101, 114>>, 271>>,
      <<"Tab", <<84, 97, 98>>, 9>>,
      <<"Insert", <<73, 110, 115, 101, 114, 116>>, 277>>,
      <<"Delete", <<68, 101, 108, 101, 116, 101>>, 127>>,
      <<"End", <<69, 110, 100>>, 279>>,
      <<"Home", <<72, 111, 109, 101>>, 278>>,
      <<"ShiftRight", <<83, 104, 105, 102, 116, 82, 105, 103, 104, 116>>, 303>>,
      <<"ShiftLeft", <<83, 104, 105, 102, 116, 76, 101, 102, 116>>, 304>>,
      <<"ControlLeft", <<67, 111, 110, 116, 114, 111, 108, 76, 101, 102, 116>>, 306>>,
      <<"AltLeft", <<65, 108, 116, 76, 101, 102, 116>>, 308>>,
      <<"Space", <<83, 112, 97, 99, 101>>, 32>>,
      <<"Escape", <<69, 115, 99, 97, 112, 101>>, 27>>,
      <<"NumpadAdd", <<78, 117, 109, 112, 97, 100, 65, 100, 100>>, 270>>,
      <<"NumpadSubtract", <<78, 117, 109, 112, 97, 100, 83, 117, 98, 116, 114, 97, 99, 116>>, 269>>,
      <<"F1", <<70, 49>>, 282>>,
      <<"F2", <<70, 50>>, 283>>,
      <<"F3", <<70, 51>>, 284>>,
      <<"F4", <<70, 52>>, 285>>,
      <<"F5", <<70, 53>>, 286>>,
      <<"F6", <<70, 54>>, 287>>,
      <<"F7", <<70, 55>>, 288>>,
      <<"F8", <<70, 56>>, 289>>,
      <<"F9", <<70, 57>>, 290>>,
      <<"F10", <<70, 49, 48>>, 291>>,
      <<"F11", <<70, 49, 49>>, 292>>,
      <<"F12", <<70, 49, 50>>, 293>>,
      <<"Digit0", <<68, 105, 103, 105, 116, 48>>, 48>>,
      <<"Digit1", <<68, 105, 103, 105, 116, 49>>, 49>>,
      <<"Digit2", <<68, 105, 103, 105, 116, 50>>, 50>>,
      <<"Digit3", <<68, 105, 103, 105, 116, 51>>, 51>>,
      <<"Digit4", <<68, 105, 103, 105, 116, 52>>, 52>>,
      <<"Digit5", <<68, 105, 103, 105, 116, 53>>, 53>>,
      <<"Digit6", <<68, 105, 103, 105, 116, 54>>, 54>>,
      <<"Digit7", <<68, 105, 103, 105, 116, 55>>, 55>>,
      <<"Digit8", <<68, 105, 103, 105, 116, 56>>, 56>>,
      <<"Digit9", <<68, 105, 103, 105, 116, 57>>, 57>>,
      <<"PageUp", <<80, 97, 103, 101, 85, 112>>, 280>>,
      <<"PageDown", <<80, 97, 103, 101, 68, 111, 119, 110>>, 281>>,
      <<"Numpad0", <<78, 117, 109, 112, 97, 100, 48>>, 256>>,
      <<"Numpad1", <<78, 117, 109, 112, 97, 100, 49>>, 257>>,
      <<"Numpad2", <<78, 117, 109, 112, 97, 100, 50>>, 258>>,
      <<"Numpad3", <<78, 117, 109, 112, 97, 100, 51>>, 259>>,
      <<"Numpad4", <<78, 117, 109, 112, 97, 100, 52>>, 260>>,
      <<"Numpad5", <<78, 117, 109, 112, 97, 100, 53>>, 261>>,
      <<"Numpad6", <<78, 117, 109, 112, 97, 100, 54>>, 262>>,
      <<"Numpad7", <<78, 117, 109, 112, 97, 100, 55>>, 263>>,
      <<"Numpad8", <<78, 117, 109, 112, 97, 100, 56>>, 264>>,
      <<"Numpad9", <<78, 117, 109, 112, 97, 100, 57>>, 265>>,
      <<"Period", <<80, 101, 114, 105, 111, 100>>, 46>>,
      <<"CapsLock", <<67, 97, 112, 115, 76, 111, 99, 107>>, 301>>,
      <<"NumLock", <<78, 117, 109, 76, 111, 99, 107>>, 300>>,
      <<"Backspace", <<66, 97, 99, 107, 115, 112, 97, 99, 101>>, 8>>,
      <<"NumpadMultiply", <<78, 117, 109, 112, 97, 100, 77, 117, 108, 116, 105, 112, 108, 121>>, 268>>,
      <<"NumpadDivide", <<78, 117, 109, 112, 97, 100, 68, 105, 118, 105, 100, 101>>, 267>>,
      <<"PrintScreen", <<80, 114, 105, 110, 116, 83, 99, 114, 101, 101, 110>>, 316>>,
      <<"ScrollLock", <<83, 99, 114, 111, 108, 108, 76, 111, 99, 107>>, 302>>,
      <<"Backquote", <<66, 97, 99, 107, 113, 117, 111, 116, 101>>, 96>>,
      <<"Pause", <<80, 97, 117, 115, 101>>, 19>>,
      <<"Quote", <<81, 117, 111, 116, 101>>, 39>>,
      <<"Comma", <<67, 111, 109, 109, 97>>, 44>>,
      <<"Minus", <<77, 105, 110, 117, 115>>, 45>>,
      <<"Slash", <<83, 108, 97, 115, 104>>, 47>>,
      <<"Semicolon", <<83, 101, 109, 105, 99, 111, 108, 111, 110>>, 59>>,
      <<"Equal", <<69, 113, 117, 97, 108>>, 61>>,
      <<"BracketLeft", <<66, 114, 97, 99, 107, 101, 116, 76, 101, 102, 116>>, 91>>,
      <<"Backslash", <<66, 97, 99, 107, 115, 108, 97, 115, 104>>, 92>>,
      <<"BracketRight", <<66, 114, 97, 99, 107, 101, 116, 82, 105, 103, 104, 116>>, 93>>,
      <<"NumpadDecimal", <<78, 117, 109, 112, 97, 100, 68, 101, 99, 105, 109, 97, 108>>, 266>>,
      <<"NumpadEqual", <<78, 117, 109, 112, 97, 100, 69, 113, 117, 97, 108>>, 272>>,
      <<"ControlRight", <<67, 111, 110, 116, 114, 111, 108, 82, 105, 103, 104, 116>>, 305>>,
      <<"AltRight", <<65, 108, 116, 82, 105, 103, 104, 116>>, 307>>,
      <<"F13", <<70, 49, 51>>, 294>>,
      <<"F14", <<70, 49, 52>>, 295>>,
      <<"F15", <<70, 49, 53>>, 296>>,
      <<"MetaRight", <<77, 101, 116, 97, 82, 105, 103, 104, 116>>, 309>>,
      <<"MetaLeft", <<77, 101, 116, 97, 76, 101, 102, 116>>, 310>>,
      <<"Help", <<72, 101, 108, 112>>, 315>>,
      <<"ContextMenu", <<67, 111, 110, 116, 101, 120, 116, 77, 101, 110, 117>>, 319>>,
      <<"Power", <<80, 111, 119, 101, 114>>, 320>>
    >>

\* KeyboardEvent.code values outside the table, with their bytes.
ForeignCodes == { <<"IntlBackslash", <<73, 110, 116, 108, 66, 97, 99, 107, 115, 108, 97, 115, 104>> >>,
                  <<"Fn", <<70, 110>> >> }

CodeBytes(code) ==
    IF \E i \in 1..Len(rwebinput_key_to_code_map) : rwebinput_key_to_code_map[i][1] = code
    THEN rwebinput_key_to_code_map[
             CHOOSE i \in 1..Len(rwebinput_key_to_code_map) :
                 rwebinput_key_to_code_map[i][1] = code ][2]
    ELSE (CHOOSE f \in ForeignCodes : f[1] = code)[2]

\* encoding_crc32(0, bytes, len): the reflected CRC-32 of polynomial 0xEDB88320.
CrcPolyHi == 60856
CrcPolyLo == 33568
Half == 65536

RECURSIVE Xor16(_, _)
Xor16(a, b) ==
    IF a = 0 THEN b
    ELSE IF b = 0 THEN a
    ELSE 2 * Xor16(a \div 2, b \div 2) + ((a + b) % 2)

\* A uint32_t is the pair <<high 16 bits, low 16 bits>>.
CrcZero == <<0, 0>>
CrcNot(w) == <<(Half - 1) - w[1], (Half - 1) - w[2]>>
CrcXorByte(w, byte) == <<w[1], Xor16(w[2], byte)>>
CrcShift(w) ==
    LET hi == w[1] \div 2
        lo == (w[2] \div 2) + (w[1] % 2) * (Half \div 2)
    IN  IF w[2] % 2 = 1 THEN <<Xor16(hi, CrcPolyHi), Xor16(lo, CrcPolyLo)>>
        ELSE <<hi, lo>>

RECURSIVE CrcShifts(_, _)
CrcShifts(w, n) ==
    IF n = 0 THEN w
    ELSE LET v == CrcShift(w)
         IN  IF v[1] >= 0 THEN CrcShifts(v, n - 1) ELSE v

RECURSIVE CrcBytes(_, _, _)
CrcBytes(w, bytes, i) ==
    IF i > Len(bytes) THEN w
    ELSE LET v == CrcShifts(CrcXorByte(w, bytes[i]), 8)
         IN  IF v[1] >= 0 THEN CrcBytes(v, bytes, i + 1) ELSE v

encoding_crc32(bytes) == CrcNot(CrcBytes(CrcNot(CrcZero), bytes, 1))

GenerateLutShortHash ==
    [ i \in 1..(Len(rwebinput_key_to_code_map) + 1) |->
        IF i <= Len(rwebinput_key_to_code_map)
        THEN [ rk  |-> rwebinput_key_to_code_map[i][3],
               sym |-> encoding_crc32(SubSeq(rwebinput_key_to_code_map[i][2], 1,
                                             Len(rwebinput_key_to_code_map[i][2]) - 1)) ]
        ELSE [ rk |-> RETROK_UNKNOWN, sym |-> CrcZero ] ]

\* rwebinput_generate_lut: rarch_key_map_rwebinput, entries [rk, sym], with
\* the terminating entry last.
rwebinput_generate_lut ==
    [ i \in 1..(Len(rwebinput_key_to_code_map) + 1) |->
        IF i <= Len(rwebinput_key_to_code_map)
        THEN [ rk  |-> rwebinput_key_to_code_map[i][3],
               sym |-> encoding_crc32(rwebinput_key_to_code_map[i][2]) ]
        ELSE [ rk |-> RETROK_UNKNOWN, sym |-> CrcZero ] ]

rarch_key_map_rwebinput == rwebinput_generate_lut

\* input_keymaps_translate_keysym_to_rk over the table that
\* input_keymaps_init_keyboard_lut registered: the retro key of the entry
\* whose hash is sym, RETROK_UNKNOWN when there is none.
input_keymaps_translate_keysym_to_rk(sym) ==
    LET hits == { i \in 1..(Len(rarch_key_map_rwebinput) - 1) :
                      rarch_key_map_rwebinput[i].sym = sym }
    IN  IF hits = {} THEN RETROK_UNKNOWN
        ELSE rarch_key_map_rwebinput[CHOOSE i \in hits : \A j \in hits : i <= j].rk

\* The codes of the table, and the hash and translation of every code a key
\* event can carry, computed once.
KeyCodes == {"ArrowLeft", "KeyA", "IntlBackslash"}
TableCodes == { rwebinput_key_to_code_map[i][1] : i \in 1..Len(rwebinput_key_to_code_map) }
TranslatedKey == [ c \in TableCodes \cup { f[1] : f \in ForeignCodes } |->
                     input_keymaps_translate_keysym_to_rk(encoding_crc32(CodeBytes(c))) ]

(***************************************************************************)
(* rwebinput_process_keyboard_events and rwebinput_input_poll              *)
(***************************************************************************)
\* event = [type, code]; k is the keys array.
ProcessIgnoringType(k, event) ==
    LET translated_keycode == TranslatedKey[event.code]
    IN  IF translated_keycode < RETROK_LAST /\ translated_keycode # RETROK_UNKNOWN
        THEN k \cup {translated_keycode}
        ELSE k

rwebinput_process_keyboard_events(k, event) ==
    LET keydown == (event.type = "keydown")
        translated_keycode == TranslatedKey[event.code]
    IN  IF translated_keycode < RETROK_LAST /\ translated_keycode # RETROK_UNKNOWN
        THEN IF keydown THEN k \cup {translated_keycode}
                        ELSE k \ {translated_keycode}
        ELSE k

\* The loop of lines 715-717 over events[1..count].
RECURSIVE DrainKeyboard(_, _, _, _)
DrainKeyboard(k, events, i, count) ==
    IF i > count THEN k
    ELSE DrainKeyboard(rwebinput_process_keyboard_events(k, events[i]),
                       events, i + 1, count)

PollMouseKeepPending(m) ==
    [ m EXCEPT !.delta_x = m.pending_delta_x,
               !.delta_y = m.pending_delta_y,
               !.scroll_x = m.pending_scroll_x,
               !.scroll_y = m.pending_scroll_y ]

PollMouseNoLatch(m) ==
    [ m EXCEPT !.delta_x = m.delta_x + m.pending_delta_x,
               !.delta_y = m.delta_y + m.pending_delta_y,
               !.pending_delta_x = 0,
               !.pending_delta_y = 0,
               !.scroll_x = m.pending_scroll_x,
               !.scroll_y = m.pending_scroll_y,
               !.pending_scroll_x = 0,
               !.pending_scroll_y = 0 ]

\* Lines 721-729.
PollMouse(m) ==
    [ m EXCEPT !.delta_x = m.pending_delta_x,
               !.delta_y = m.pending_delta_y,
               !.pending_delta_x = 0,
               !.pending_delta_y = 0,
               !.scroll_x = m.pending_scroll_x,
               !.scroll_y = m.pending_scroll_y,
               !.pending_scroll_x = 0,
               !.pending_scroll_y = 0 ]

\* The result is the triple [mouse, keyboard, keys] poll leaves behind.
rwebinput_input_poll(m, kb, k) ==
    [ keys     |-> DrainKeyboard(k, kb.events, 1, kb.count),
      keyboard |-> [ kb EXCEPT !.count = 0 ],
      mouse    |-> PollMouse(m) ]

(***************************************************************************)
(* The virtual gamepad table: simulate_input and is_pressed_hehe           *)
(***************************************************************************)
StuffRows == 29
FirstReservedId == 24

\* static struct rwebinput_code_to_key stuff[]: row i holds id i - 1.
StuffInit ==
    [ i \in 1..StuffRows |->
        [ id |-> i - 1, down_1 |-> 0, down_2 |-> 0, down_3 |-> 0, down_4 |-> 0 ] ]

\* rwebinput_input_free (lines 679-688) removes every DOM listener and
\* releases the instance; the result is what it leaves of the process: no
\* listener, and the global table s, which it does not name.
FreeClearsTable(s) == [ listeners |-> {}, stuff |-> StuffInit ]

rwebinput_input_free(s) == [ listeners |-> {}, stuff |-> s ]

\* The first row whose id is the one looked for, 0 when the loop finds none.
StuffIndex(s, id) ==
    IF \E i \in 1..Len(s) : s[i].id = id
    THEN CHOOSE i \in 1..Len(s) : s[i].id = id /\ \A j \in 1..(i - 1) : s[j].id # id
    ELSE 0

SimulateInputFirstColumn(s, user, key, down) ==
    LET i == StuffIndex(s, key)
    IN  IF i = 0 THEN s
        ELSE IF user \in 0..3 THEN [ s EXCEPT ![i].down_1 = down ]
        ELSE s

simulate_input(s, user, key, down) ==
    LET i == StuffIndex(s, key)
    IN  IF i = 0 THEN s
        ELSE IF user = 0 THEN [ s EXCEPT ![i].down_1 = down ]
        ELSE IF user = 1 THEN [ s EXCEPT ![i].down_2 = down ]
        ELSE IF user = 2 THEN [ s EXCEPT ![i].down_3 = down ]
        ELSE IF user = 3 THEN [ s EXCEPT ![i].down_4 = down ]
        ELSE s

IsPressedNoReserve(s, user, id) ==
    LET i == StuffIndex(s, id)
    IN  IF i = 0 THEN 0
        ELSE IF user = 0 THEN s[i].down_1
        ELSE IF user = 1 THEN s[i].down_2
        ELSE IF user = 2 THEN s[i].down_3
        ELSE IF user = 3 THEN s[i].down_4
        ELSE 0

is_pressed_hehe(s, user, id) ==
    IF id >= FirstReservedId THEN 0
    ELSE LET i == StuffIndex(s, id)
         IN  IF i = 0 THEN 0
             ELSE IF user = 0 THEN s[i].down_1
             ELSE IF user = 1 THEN s[i].down_2
             ELSE IF user = 2 THEN s[i].down_3
             ELSE IF user = 3 THEN s[i].down_4
             ELSE 0

(***************************************************************************)
(* rwebinput_mouse_state and rwebinput_input_state                         *)
(***************************************************************************)
\* The X and Y queries saturating at the int16_t limits instead of wrapping.
MouseStateSaturates(m, id, screen) ==
    LET Clamp(v) == IF v > 32767 THEN 32767 ELSE IF v < -32768 THEN -32768 ELSE v
    IN  IF id = "X" THEN Clamp(IF screen THEN m.x ELSE m.delta_x)
        ELSE IF id = "Y" THEN Clamp(IF screen THEN m.y ELSE m.delta_y)
        ELSE 0

rwebinput_mouse_state(m, id, screen) ==
    IF id = "X" THEN ToInt16(IF screen THEN m.x ELSE m.delta_x)
    ELSE IF id = "Y" THEN ToInt16(IF screen THEN m.y ELSE m.delta_y)
    ELSE IF id = "LEFT" THEN BoolToInt(RWEBINPUT_MOUSE_BTNL \in m.buttons)
    ELSE IF id = "RIGHT" THEN BoolToInt(RWEBINPUT_MOUSE_BTNR \in m.buttons)
    ELSE IF id = "MIDDLE" THEN BoolToInt(RWEBINPUT_MOUSE_BTNM \in m.buttons)
    ELSE IF id = "BUTTON_4" THEN BoolToInt(RWEBINPUT_MOUSE_BTN4 \in m.buttons)
    ELSE IF id = "BUTTON_5" THEN BoolToInt(RWEBINPUT_MOUSE_BTN5 \in m.buttons)
    ELSE IF id = "WHEELUP" THEN BoolToInt(m.scroll_y < 0)
    ELSE IF id = "WHEELDOWN" THEN BoolToInt(m.scroll_y > 0)
    ELSE IF id = "HORIZ_WHEELUP" THEN BoolToInt(m.scroll_x < 0)
    ELSE IF id = "HORIZ_WHEELDOWN" THEN BoolToInt(m.scroll_x > 0)
    ELSE 0

(***************************************************************************)
(* Host definitions the dispatch of rwebinput_input_state uses             *)
(***************************************************************************)
RARCH_FIRST_CUSTOM_BIND == 16
\* End of the host's bind list; is_pressed_hehe is 0 from FirstReservedId on,
\* so every value above it gives the same results.
RARCH_BIND_LIST_END == 100
RETRO_DEVICE_ID_JOYPAD_MASK == 256

RARCH_ANALOG_LEFT_X_PLUS == 16
RARCH_ANALOG_LEFT_X_MINUS == 17
RARCH_ANALOG_LEFT_Y_PLUS == 18
RARCH_ANALOG_LEFT_Y_MINUS == 19
RARCH_ANALOG_RIGHT_X_PLUS == 20
RARCH_ANALOG_RIGHT_X_MINUS == 21
RARCH_ANALOG_RIGHT_Y_PLUS == 22
RARCH_ANALOG_RIGHT_Y_MINUS == 23

\* input_conv_analog_id_to_bind_id(idx, id, id_minus, id_plus): the pair for
\* the two sticks' two axes; every other (idx, id) leaves both at their
\* initial 0.
input_conv_analog_id_to_bind_id(idx, id) ==
    IF idx = 0 /\ id = 0
    THEN [ id_minus |-> RARCH_ANALOG_LEFT_X_MINUS, id_plus |-> RARCH_ANALOG_LEFT_X_PLUS ]
    ELSE IF idx = 0 /\ id = 1
    THEN [ id_minus |-> RARCH_ANALOG_LEFT_Y_MINUS, id_plus |-> RARCH_ANALOG_LEFT_Y_PLUS ]
    ELSE IF idx = 1 /\ id = 0
    THEN [ id_minus |-> RARCH_ANALOG_RIGHT_X_MINUS, id_plus |-> RARCH_ANALOG_RIGHT_X_PLUS ]
    ELSE IF idx = 1 /\ id = 1
    THEN [ id_minus |-> RARCH_ANALOG_RIGHT_Y_MINUS, id_plus |-> RARCH_ANALOG_RIGHT_Y_PLUS ]
    ELSE [ id_minus |-> 0, id_plus |-> 0 ]

\* What video_driver_translate_coord_viewport_wrap answered: failure, or the
\* four int16_t coordinates it stored.
NoTranslate ==
    [ ok |-> FALSE, res_x |-> 0, res_y |-> 0, res_screen_x |-> 0, res_screen_y |-> 0 ]

RECURSIVE Pow2(_)
Pow2(n) == IF n = 0 THEN 1 ELSE 2 * Pow2(n - 1)

(***************************************************************************)
(* rwebinput_input_state, case by case                                     *)
(***************************************************************************)
\* The mask loop: ret |= (1 << i) for every pressed i below n.
RECURSIVE JoypadMaskBits(_, _, _)
JoypadMaskBits(s, port, n) ==
    IF n = 0 THEN 0
    ELSE JoypadMaskBits(s, port, n - 1)
           + (IF is_pressed_hehe(s, port, n - 1) # 0 THEN Pow2(n - 1) ELSE 0)

InputStateJoypadAnyPort(s, port, id) ==
    IF id = RETRO_DEVICE_ID_JOYPAD_MASK
    THEN ToInt16(JoypadMaskBits(s, 0, RARCH_FIRST_CUSTOM_BIND))
    ELSE IF id < RARCH_BIND_LIST_END /\ is_pressed_hehe(s, 0, id) # 0 THEN 1
    ELSE 0

\* case RETRO_DEVICE_JOYPAD; ret is an int16_t.
InputStateJoypad(s, port, id) ==
    IF id = RETRO_DEVICE_ID_JOYPAD_MASK
    THEN ToInt16(JoypadMaskBits(s, port, RARCH_FIRST_CUSTOM_BIND))
    ELSE IF id < RARCH_BIND_LIST_END /\ is_pressed_hehe(s, port, id) # 0 THEN 1
    ELSE 0

InputStateAnalogPlusOnly(s, port, idx, id) ==
    LET b == input_conv_analog_id_to_bind_id(idx, id)
    IN  ToInt16(is_pressed_hehe(s, port, b.id_plus))

\* case RETRO_DEVICE_ANALOG: ret = rv of the plus half, then ret -= rv of
\* the minus half, each when nonzero, in an int16_t.
InputStateAnalog(s, port, idx, id) ==
    LET b == input_conv_analog_id_to_bind_id(idx, id)
        plus == is_pressed_hehe(s, port, b.id_plus)
        minus == is_pressed_hehe(s, port, b.id_minus)
        ret == IF plus # 0 THEN ToInt16(plus) ELSE 0
    IN  IF minus # 0 THEN ToInt16(ret - minus) ELSE ret

PointerEdgeDetect == 32700

InputStatePointerPressedInside(m, tr, device, idx, id) ==
    IF idx # 0 \/ ~tr.ok THEN 0
    ELSE LET screen == device = "POINTER_SCREEN"
             res_x == IF screen THEN tr.res_screen_x ELSE tr.res_x
             res_y == IF screen THEN tr.res_screen_y ELSE tr.res_y
             inside == /\ res_x >= -PointerEdgeDetect
                       /\ res_y >= -PointerEdgeDetect
                       /\ res_x <= PointerEdgeDetect
                       /\ res_y <= PointerEdgeDetect
         IN  IF id = "POINTER_X" THEN (IF inside THEN res_x ELSE 0)
             ELSE IF id = "POINTER_Y" THEN (IF inside THEN res_y ELSE 0)
             ELSE IF id = "POINTER_PRESSED"
             THEN BoolToInt(inside /\ RWEBINPUT_MOUSE_BTNL \in m.buttons)
             ELSE IF id = "IS_OFFSCREEN" THEN BoolToInt(~inside)
             ELSE 0

\* case RETRO_DEVICE_POINTER / RARCH_DEVICE_POINTER_SCREEN; tr is the host's
\* answer for (mouse->x, mouse->y).
InputStatePointer(m, tr, device, idx, id) ==
    IF idx # 0 \/ ~tr.ok THEN 0
    ELSE LET screen == device = "POINTER_SCREEN"
             res_x == IF screen THEN tr.res_screen_x ELSE tr.res_x
             res_y == IF screen THEN tr.res_screen_y ELSE tr.res_y
             inside == /\ res_x >= -PointerEdgeDetect
                       /\ res_y >= -PointerEdgeDetect
                       /\ res_x <= PointerEdgeDetect
                       /\ res_y <= PointerEdgeDetect
         IN  IF id = "POINTER_X" THEN (IF inside THEN res_x ELSE 0)
             ELSE IF id = "POINTER_Y" THEN (IF inside THEN res_y ELSE 0)
             ELSE IF id = "POINTER_PRESSED"
             THEN BoolToInt(RWEBINPUT_MOUSE_BTNL \in m.buttons)
             ELSE IF id = "IS_OFFSCREEN" THEN BoolToInt(~inside)
             ELSE 0

\* rwebinput_input_state: s is the stuff table, tr the host's viewport
\* translation of the live mouse position.
rwebinput_input_state(m, k, s, tr, port, device, idx, id) ==
    IF device = "JOYPAD" THEN InputStateJoypad(s, port, id)
    ELSE IF device = "ANALOG" THEN InputStateAnalog(s, port, idx, id)
    ELSE IF device = "KEYBOARD" THEN BoolToInt(id < RETROK_LAST /\ id \in k)
    ELSE IF device \in {"MOUSE", "MOUSE_SCREEN"}
    THEN rwebinput_mouse_state(m, id, device = "MOUSE_SCREEN")
    ELSE IF device \in {"POINTER", "POINTER_SCREEN"}
    THEN InputStatePointer(m, tr, device, idx, id)
    ELSE 0

(***************************************************************************)
(* rwebinput_input_init: the zeroed instance and the DOM event types it    *)
(* subscribes (lines 383-437).  No keydown or keyup listener is set.       *)
(***************************************************************************)
rwebinput_input_init ==
    [ mouse     |-> ZeroMouse,
      touch     |-> ZeroTouch,
      keyboard  |-> ZeroKeyboard,
      keys      |-> {},
      listeners |-> { "mousedown", "mouseup", "mousemove", "wheel",
                      "touchstart", "touchend", "touchmove", "touchcancel" } ]

(***************************************************************************)
(* Bounds and input sets                                                   *)
(***************************************************************************)
MaxFrameEvents == 2        \* events per frame in Spec
MaxButtonFrameEvents == 1  \* events per frame in SpecButtons
MaxTouchFrameEvents == 1   \* events per frame in SpecTouch
MaxQueue == 2              \* key events per frame, queued events drawn
MaxLives == 2              \* instances init builds in SpecLife

MouseTypes == {"mousemove", "mousedown", "mouseup"}
TouchTypes == {"touchstart", "touchmove", "touchend", "touchcancel"}
KeyTypes == {"keydown", "keyup"}

MouseEventOf(tx, ty, mx, my, b) ==
    [ targetX |-> tx, targetY |-> ty, movementX |-> mx, movementY |-> my, button |-> b ]

FrameMouseEvents == { MouseEventOf(7, 9, mv[1], mv[2], 0) : mv \in { <<0, 0>>, <<3, 0>>, <<4, -2>> } }
FrameWheelEvents == { [ deltaX |-> 0, deltaY |-> 1 ], [ deltaX |-> 2, deltaY |-> -1 ] }
FrameFingers == {0}
FramePoints == { <<100, 100>>, <<130, 100>> }

ButtonNumbers == {0, 1, 2, 3, 4, 8}
ButtonMouseEvents == { MouseEventOf(t, 9, mx, 0, b) : t \in {7, 8}, mx \in {0, 1}, b \in ButtonNumbers }

\* Mouse moves whose positions and summed movements leave the int16_t range.
WideMouseEvents ==
    { MouseEventOf(t[1], t[2], mv[1], mv[2], 0) :
        t \in { <<7, 9>>, <<40000, -40000>> },
        mv \in { <<5, 0>>, <<30000, -30000>>, <<-20000, 4>> } }

\* SpecPointer: three buttons at two positions, and what the
\* host's viewport translation may answer: failure, or coordinates on both
\* sides of the edge-detect bound.
PointerMouseEvents == { MouseEventOf(t, 9, 0, 0, b) : t \in {7, 40000}, b \in {0, 1, 2} }
VideoCoords == { -PointerEdgeDetect - 1, -PointerEdgeDetect, 5, PointerEdgeDetect + 1 }
ScreenCoords == { -32768, 9, PointerEdgeDetect }
TranslateResults ==
    [ ok : BOOLEAN, res_x : VideoCoords, res_y : VideoCoords,
      res_screen_x : ScreenCoords, res_screen_y : ScreenCoords ]
PointerDevices == {"POINTER", "POINTER_SCREEN"}
PointerIds == {"POINTER_X", "POINTER_Y", "POINTER_PRESSED", "POINTER_COUNT", "IS_OFFSCREEN"}

\* SpecMixed: the left and right mouse buttons interleaved with two fingers.
MixedMouseEvents == { MouseEventOf(7, 9, 0, 0, b) : b \in {0, 2} }
MixedFingers == {0, 1}
MixedPoints == { <<100, 100>>, <<10, 10>> }

TouchFingers == {0, 1}
TouchPoints == { <<100, 100>>, <<110, 100>>, <<10, 10>> }

PadUsers == {0, 3, 4}
PadKeys == {0, 23, 24, 29}
PadDowns == {0, 1}

\* SpecJoypad: UP and R3 (the mask's top bit) for two ports and a user
\* outside the table's four columns; SpecAnalog: the left stick's X halves
\* and the right stick's Y halves.
JoypadUsers == {0, 1, 4}
JoypadKeys == {4, 15}
JoypadDowns == {0, 1, 2}
AnalogUsers == {0, 1}
AnalogKeys == { RARCH_ANALOG_LEFT_X_PLUS, RARCH_ANALOG_LEFT_X_MINUS,
                RARCH_ANALOG_RIGHT_Y_PLUS, RARCH_ANALOG_RIGHT_Y_MINUS }
AnalogDowns == {0, 1, 2}

KeyEvents == [ type : KeyTypes, code : KeyCodes ]
KeyIds == { TranslatedKey[c] : c \in KeyCodes } \ {RETROK_UNKNOWN}

(***************************************************************************)
(* The touch events a browser dispatches: the event lists every finger on  *)
(* the surface, the changed ones flagged; touchstart brings fingers that   *)
(* were off the surface, the other types change fingers that are on it.    *)
(***************************************************************************)
TouchLists(fingers, points, event_type, surf) ==
    LET changeable == IF event_type = "touchstart" THEN fingers \ surf ELSE surf
        idle == CHOOSE p \in points : \A q \in points : p[1] + p[2] <= q[1] + q[2]
    IN  UNION {
          LET present == surf \cup C
              n == Cardinality(present)
          IN  { [ i \in 1..n |->
                    [ identifier |-> ord[i],
                      canvasX    |-> pos[ord[i]][1],
                      canvasY    |-> pos[ord[i]][2],
                      isChanged  |-> ord[i] \in C ] ] :
                  ord \in { o \in [1..n -> present] : \A i, j \in 1..n : o[i] = o[j] => i = j },
                  pos \in { q \in [present -> points] : \A f \in present \ C : q[f] = idle } }
          : C \in (SUBSET changeable) \ {{}} }

ChangedIds(touches) == { touches[i].identifier : i \in { j \in 1..Len(touches) : touches[j].isChanged } }

SurfaceAfter(surf, event_type, touches) ==
    IF event_type = "touchstart" THEN surf \cup ChangedIds(touches)
    ELSE IF event_type \in {"touchend", "touchcancel"} THEN surf \ ChangedIds(touches)
    ELSE surf

(***************************************************************************)
(* History records                                                         *)
(***************************************************************************)
ZeroSum == [ x |-> 0, y |-> 0 ]
\* The wheel events of one frame: how many, how many with a nonzero deltaX
\* and deltaY, and the sums of their deltas.
NoWheel == [ n |-> 0, nx |-> 0, ny |-> 0, x |-> 0, y |-> 0 ]
NoWheelHist == [ open |-> NoWheel, closed |-> NoWheel ]

WheelAfter(w, e) ==
    [ n  |-> w.n + 1,
      nx |-> w.nx + BoolToInt(e.deltaX # 0),
      ny |-> w.ny + BoolToInt(e.deltaY # 0),
      x  |-> w.x + e.deltaX,
      y  |-> w.y + e.deltaY ]

NoInstance == [ live |-> FALSE, inits |-> 0 ]
FirstInstance == [ live |-> TRUE, inits |-> 1 ]

NoScen == [ step |-> 0, a |-> 0, b |-> 0, px |-> 0, py |-> 0 ]
NoDrag == [ step |-> 0, f |-> 0, sum0 |-> 0 ]
NoTap == [ phase |-> "none", f |-> 0, armed |-> FALSE, alone |-> FALSE,
           bit0_before |-> FALSE, sum0 |-> 0, dragged |-> FALSE,
           presses |-> 0, releases |-> 0 ]
NoPrePoll == [ keys |-> {}, events |-> << >>, dom |-> << >> ]
NoInj == [ c \in (PadUsers \cup JoypadUsers \cup AnalogUsers)
                   \X (PadKeys \cup JoypadKeys \cup AnalogKeys) |-> 0 ]

LeftDown(m) == RWEBINPUT_MOUSE_BTNL \in m.buttons

\* The double-tap scenario: a touchstart on a quiet surface (step 1), the
\* touchend of that finger at the same point (2), a touchstart at that
\* point (3), the touchend of that finger (4); anything else leaves it.
ScenAfter(s, t, m, surf, event_type, touches) ==
    LET sel == LastChanged(touches, Len(touches))
        ct == touches[sel]
        one == Cardinality(ChangedIds(touches)) = 1
    IN  IF one /\ s.step = 1 /\ event_type = "touchend" /\ ct.identifier = s.a
               /\ ct.canvasX = s.px /\ ct.canvasY = s.py
        THEN [ s EXCEPT !.step = 2 ]
        ELSE IF one /\ s.step = 2 /\ event_type = "touchstart"
               /\ ct.canvasX = s.px /\ ct.canvasY = s.py
        THEN [ s EXCEPT !.step = 3, !.b = ct.identifier ]
        ELSE IF one /\ s.step = 3 /\ event_type = "touchend" /\ ct.identifier = s.b
        THEN [ s EXCEPT !.step = 4 ]
        ELSE IF one /\ event_type = "touchstart" /\ surf = {}
               /\ ~t.clicked_yet /\ ~LeftDown(m)
        THEN [ step |-> 1, a |-> ct.identifier, b |-> ct.identifier,
               px |-> ct.canvasX, py |-> ct.canvasY ]
        ELSE NoScen

\* The drag scenario: a touchstart while no tap is armed and the left button
\* is up (step 1), then a touchmove of that finger whose x + y lies more than
\* the threshold from the touchstart's (2), then that finger's touchend (3).
DragAfter(d, t, m, event_type, touches) ==
    LET sel == LastChanged(touches, Len(touches))
        ct == touches[sel]
        one == Cardinality(ChangedIds(touches)) = 1
    IN  IF one /\ d.step = 1 /\ event_type = "touchmove" /\ ct.identifier = d.f
               /\ Abs((ct.canvasX + ct.canvasY) - d.sum0) > TouchTapThreshold
        THEN [ d EXCEPT !.step = 2 ]
        ELSE IF one /\ d.step = 2 /\ event_type = "touchend" /\ ct.identifier = d.f
        THEN [ d EXCEPT !.step = 3 ]
        ELSE IF one /\ event_type = "touchstart" /\ ~t.clicked_yet /\ ~LeftDown(m)
        THEN [ step |-> 1, f |-> ct.identifier, sum0 |-> ct.canvasX + ct.canvasY ]
        ELSE NoDrag

\* The tap sequence opened by the latest touchstart the handler selected:
\* what its touchstart found, and the presses (bit 0 going 0 -> 1) and
\* releases (1 -> 0) from its touchstart to its touchend or touchcancel.
TapAfter(tp, t, m, m2, event_type, touches) ==
    LET sel == LastChanged(touches, Len(touches))
        ct == touches[sel]
        one == Cardinality(ChangedIds(touches)) = 1
        press == BoolToInt(~LeftDown(m) /\ LeftDown(m2))
        release == BoolToInt(LeftDown(m) /\ ~LeftDown(m2))
    IN  IF event_type = "touchstart"
        THEN [ phase |-> "started", f |-> ct.identifier,
               armed |-> (t.clicked_yet /\ t.last_touchdown_id = ct.identifier),
               alone |-> one,
               bit0_before |-> LeftDown(m),
               sum0 |-> ct.canvasX + ct.canvasY,
               dragged |-> FALSE,
               presses |-> press, releases |-> release ]
        ELSE IF tp.phase # "started" THEN NoTap
        ELSE [ tp EXCEPT
                 !.phase = IF event_type \in {"touchend", "touchcancel"}
                              /\ tp.f \in ChangedIds(touches)
                           THEN "ended" ELSE "started",
                 !.alone = @ /\ ChangedIds(touches) = {tp.f},
                 !.dragged = @ \/ ( event_type = "touchmove" /\ ct.identifier = tp.f
                                    /\ Abs((ct.canvasX + ct.canvasY) - tp.sum0)
                                         > TouchTapThreshold ),
                 !.presses = @ + press,
                 !.releases = @ + release ]

(***************************************************************************)
(* Initial state: the process starts, init has built the instance          *)
(***************************************************************************)
Init ==
    /\ mouse = rwebinput_input_init.mouse
    /\ touch = rwebinput_input_init.touch
    /\ keyboard = rwebinput_input_init.keyboard
    /\ keys = rwebinput_input_init.keys
    /\ stuff = StuffInit
    /\ last_op = <<"init", 0>>
    /\ frame_events = 0
    /\ frame_sum = ZeroSum
    /\ latched_sum = ZeroSum
    /\ wheel_hist = NoWheelHist
    /\ polls = FALSE
    /\ phys = {}
    /\ dom_keys = << >>
    /\ key_held = {}
    /\ surface = {}
    /\ scen = NoScen
    /\ drag = NoDrag
    /\ tap = NoTap
    /\ pre_poll = NoPrePoll
    /\ inj = NoInj
    /\ instance = FirstInstance

(***************************************************************************)
(* Actions                                                                 *)
(***************************************************************************)
\* A mousedown, mouseup or mousemove reaches rwebinput_mouse_cb.
MouseDispatch(event_type, e) ==
    /\ event_type \in rwebinput_input_init.listeners
    /\ mouse' = rwebinput_mouse_cb(mouse, event_type, e)
    /\ frame_events' = frame_events + 1
    /\ frame_sum' = [ x |-> frame_sum.x + e.movementX, y |-> frame_sum.y + e.movementY ]
    /\ phys' = IF event_type = "mousedown" THEN phys \cup {e.button}
               ELSE IF event_type = "mouseup" THEN phys \ {e.button}
               ELSE phys
    /\ last_op' = <<event_type, e.button>>
    /\ UNCHANGED <<instance, touch, keyboard, keys, stuff, latched_sum, wheel_hist,
                   polls, dom_keys, key_held, surface, scen, drag, tap, pre_poll, inj>>

\* A wheel event reaches rwebinput_wheel_cb.
WheelDispatch(e) ==
    /\ "wheel" \in rwebinput_input_init.listeners
    /\ mouse' = rwebinput_wheel_cb(mouse, e)
    /\ frame_events' = frame_events + 1
    /\ last_op' = <<"wheel", 0>>
    /\ UNCHANGED <<instance, touch, keyboard, keys, stuff, frame_sum, latched_sum,
                   polls, phys, dom_keys, key_held, surface, scen, drag, tap, pre_poll, inj>>
    /\ wheel_hist' = [ wheel_hist EXCEPT !.open = WheelAfter(@, e) ]

\* A touch event reaches rwebinput_touch_cb.  The motion it is counted for is
\* what the handler adds to the pending delta.
TouchDispatch(event_type, touches) ==
    LET r == rwebinput_touch_cb(touch, mouse, event_type, touches)
    IN  /\ event_type \in rwebinput_input_init.listeners
        /\ touch' = r.touch
        /\ mouse' = r.mouse
        /\ frame_events' = frame_events + 1
        /\ frame_sum' = [ x |-> frame_sum.x + (r.mouse.pending_delta_x - mouse.pending_delta_x),
                          y |-> frame_sum.y + (r.mouse.pending_delta_y - mouse.pending_delta_y) ]
        /\ surface' = SurfaceAfter(surface, event_type, touches)
        /\ last_op' = <<event_type, touches[LastChanged(touches, Len(touches))].identifier>>
        /\ UNCHANGED <<instance, keyboard, keys, stuff, latched_sum, wheel_hist, polls,
                       phys, dom_keys, key_held, pre_poll, inj>>

\* The host calls poll.
Poll ==
    LET r == rwebinput_input_poll(mouse, keyboard, keys)
    IN  /\ mouse' = r.mouse
        /\ keyboard' = r.keyboard
        /\ keys' = r.keys
        /\ pre_poll' = [ keys |-> keys,
                         events |-> SubSeq(keyboard.events, 1, keyboard.count),
                         dom |-> dom_keys ]
        /\ frame_events' = 0
        /\ latched_sum' = frame_sum
        /\ wheel_hist' = [ open |-> NoWheel, closed |-> wheel_hist.open ]
        /\ frame_sum' = ZeroSum
        /\ polls' = TRUE
        /\ dom_keys' = << >>
        /\ last_op' = <<"poll", 0>>
        /\ UNCHANGED <<instance, touch, stuff, phys, key_held, surface, scen, drag, tap, inj>>

\* Spec: the frame discipline of motion and scroll.
MouseEvent ==
    \E event_type \in MouseTypes, e \in FrameMouseEvents :
        /\ frame_events < MaxFrameEvents
        /\ MouseDispatch(event_type, e)

WheelEvent ==
    \E e \in FrameWheelEvents :
        /\ frame_events < MaxFrameEvents
        /\ WheelDispatch(e)

TouchEvent ==
    \E event_type \in TouchTypes :
        \E touches \in TouchLists(FrameFingers, FramePoints, event_type, surface) :
            /\ frame_events < MaxFrameEvents
            /\ TouchDispatch(event_type, touches)
            /\ UNCHANGED <<scen, drag, tap>>

Next == MouseEvent \/ WheelEvent \/ TouchEvent \/ Poll

Spec == Init /\ [][Next]_vars

\* SpecButtons: the mouse buttons.
ButtonEvent ==
    \E event_type \in MouseTypes, e \in ButtonMouseEvents :
        /\ frame_events < MaxButtonFrameEvents
        /\ MouseDispatch(event_type, e)

NextButtons == ButtonEvent \/ Poll

SpecButtons == Init /\ [][NextButtons]_vars

\* SpecPointer: mouse buttons, read through state(POINTER).
PointerMouseEvent ==
    \E event_type \in MouseTypes, e \in PointerMouseEvents :
        /\ frame_events < MaxButtonFrameEvents
        /\ MouseDispatch(event_type, e)

\* SpecWide: mouse moves far outside the int16_t range, then the queries.
WideMouseEvent ==
    \E e \in WideMouseEvents :
        /\ frame_events < MaxFrameEvents
        /\ MouseDispatch("mousemove", e)

NextWide == WideMouseEvent \/ Poll

SpecWide == Init /\ [][NextWide]_vars

NextPointer == PointerMouseEvent \/ Poll

SpecPointer == Init /\ [][NextPointer]_vars

\* SpecMixed: mouse buttons and touches on the same canvas.
MixedMouseEvent ==
    \E event_type \in MouseTypes, e \in MixedMouseEvents :
        /\ frame_events < MaxTouchFrameEvents
        /\ MouseDispatch(event_type, e)

MixedTouchEvent ==
    \E event_type \in TouchTypes :
        \E touches \in TouchLists(MixedFingers, MixedPoints, event_type, surface) :
            /\ frame_events < MaxTouchFrameEvents
            /\ TouchDispatch(event_type, touches)
            /\ UNCHANGED <<scen, drag, tap>>

NextMixed == MixedMouseEvent \/ MixedTouchEvent \/ Poll

SpecMixed == Init /\ [][NextMixed]_vars

\* SpecTouch: the touch state machine, fingers landing, moving and lifting.
TapEvent ==
    \E event_type \in TouchTypes :
        \E touches \in TouchLists(TouchFingers, TouchPoints, event_type, surface) :
            /\ frame_events < MaxTouchFrameEvents
            /\ TouchDispatch(event_type, touches)
            /\ scen' = ScenAfter(scen, touch, mouse, surface, event_type, touches)
            /\ drag' = DragAfter(drag, touch, mouse, event_type, touches)
            /\ tap' = TapAfter(tap, touch, mouse, mouse', event_type, touches)

NextTouch == TapEvent \/ Poll

SpecTouch == Init /\ [][NextTouch]_vars

\* SpecKeys: the browser dispatches keydown and keyup; init set no listener
\* for either, so no callback of the driver runs.
KeyEvent ==
    \E e \in KeyEvents :
        /\ Len(dom_keys) < MaxQueue
        /\ e.type \notin rwebinput_input_init.listeners
        /\ dom_keys' = Append(dom_keys, e)
        /\ key_held' = IF e.type = "keydown" THEN key_held \cup {e.code}
                       ELSE key_held \ {e.code}
        /\ last_op' = <<e.type, 0>>
        /\ UNCHANGED <<instance, mouse, touch, keyboard, keys, stuff, frame_events,
                       frame_sum, latched_sum, wheel_hist, polls, phys, surface, scen, drag, tap,
                       pre_poll, inj>>

NextKeys == KeyEvent \/ Poll

SpecKeys == Init /\ [][NextKeys]_vars

\* SpecDrain: poll applied to a queue and a key table drawn from every
\* content within the bound (the events buffer may be longer than count).
QueuedSeqs == UNION { [1..n -> KeyEvents] : n \in 0..MaxQueue }

InitDrain ==
    /\ mouse = ZeroMouse
    /\ touch = ZeroTouch
    /\ \E ev \in QueuedSeqs : \E c \in 0..Len(ev) :
           keyboard = [ events |-> ev, count |-> c, max_size |-> Len(ev) ]
    /\ keys \in SUBSET KeyIds
    /\ stuff = StuffInit
    /\ last_op = <<"init", 0>>
    /\ frame_events = 0
    /\ frame_sum = ZeroSum
    /\ latched_sum = ZeroSum
    /\ wheel_hist = NoWheelHist
    /\ polls = FALSE
    /\ phys = {}
    /\ dom_keys = << >>
    /\ key_held = {}
    /\ surface = {}
    /\ scen = NoScen
    /\ drag = NoDrag
    /\ tap = NoTap
    /\ pre_poll = NoPrePoll
    /\ inj = NoInj
    /\ instance = FirstInstance

NextDrain == Poll

\* SpecKeyMap: poll applied to a queue holding one keydown or keyup of a
\* code of the table, with the key up or down before.
InitKeyMap ==
    /\ mouse = ZeroMouse
    /\ touch = ZeroTouch
    /\ \E c \in TableCodes, t \in KeyTypes :
           keyboard = [ events |-> << [ type |-> t, code |-> c ] >>,
                        count |-> 1, max_size |-> 1 ]
    /\ keys \in { {}, {RETROK_LEFT} }
    /\ stuff = StuffInit
    /\ last_op = <<"init", 0>>
    /\ frame_events = 0
    /\ frame_sum = ZeroSum
    /\ latched_sum = ZeroSum
    /\ wheel_hist = NoWheelHist
    /\ polls = FALSE
    /\ phys = {}
    /\ dom_keys = << >>
    /\ key_held = {}
    /\ surface = {}
    /\ scen = NoScen
    /\ drag = NoDrag
    /\ tap = NoTap
    /\ pre_poll = NoPrePoll
    /\ inj = NoInj
    /\ instance = FirstInstance

NextKeyMap == Poll

SpecKeyMap == InitKeyMap /\ [][NextKeyMap]_vars

SpecDrain == InitDrain /\ [][NextDrain]_vars

\* The embedding page calls simulate_input(user, key, down).
SimulateInputCall(user, key, down) ==
    /\ stuff' = simulate_input(stuff, user, key, down)
    /\ inj' = [ inj EXCEPT ![<<user, key>>] = down ]
    /\ last_op' = <<"simulate_input", key>>
    /\ UNCHANGED <<instance, mouse, touch, keyboard, keys, frame_events, frame_sum,
                   latched_sum, wheel_hist, polls, phys, dom_keys, key_held, surface,
                   scen, drag, tap, pre_poll>>

\* SpecPad: the embedding page injects gamepad buttons.
SimulateInput ==
    \E user \in PadUsers, key \in PadKeys, down \in PadDowns :
        SimulateInputCall(user, key, down)

NextPad == SimulateInput

SpecPad == Init /\ [][NextPad]_vars

\* SpecLife: the process from its start, before any instance exists: the
\* host builds, polls, queries and frees instances, the page injects gamepad
\* buttons at any time, and DOM events arrive whether or not an instance
\* listens.
LifeUsers == {0, 3}
LifeKeys == {23}
LifeDowns == {0, 1}

InitLife ==
    /\ mouse = ZeroMouse
    /\ touch = ZeroTouch
    /\ keyboard = ZeroKeyboard
    /\ keys = {}
    /\ stuff = StuffInit
    /\ last_op = <<"start", 0>>
    /\ frame_events = 0
    /\ frame_sum = ZeroSum
    /\ latched_sum = ZeroSum
    /\ wheel_hist = NoWheelHist
    /\ polls = FALSE
    /\ phys = {}
    /\ dom_keys = << >>
    /\ key_held = {}
    /\ surface = {}
    /\ scen = NoScen
    /\ drag = NoDrag
    /\ tap = NoTap
    /\ pre_poll = NoPrePoll
    /\ inj = NoInj
    /\ instance = NoInstance

\* The fields of the instance and the history of its frames, as init's
\* calloc builds them and as they are taken to be while no instance exists.
FreshInstance ==
    /\ mouse' = rwebinput_input_init.mouse
    /\ touch' = rwebinput_input_init.touch
    /\ keyboard' = rwebinput_input_init.keyboard
    /\ keys' = rwebinput_input_init.keys
    /\ frame_events' = 0
    /\ frame_sum' = ZeroSum
    /\ latched_sum' = ZeroSum
    /\ wheel_hist' = NoWheelHist
    /\ polls' = FALSE
    /\ dom_keys' = << >>
    /\ scen' = NoScen
    /\ drag' = NoDrag
    /\ tap' = NoTap
    /\ pre_poll' = NoPrePoll

LifeInit ==
    /\ ~instance.live
    /\ instance.inits < MaxLives
    /\ FreshInstance
    /\ instance' = [ live |-> TRUE, inits |-> instance.inits + 1 ]
    /\ last_op' = <<"init", 0>>
    /\ UNCHANGED <<stuff, inj, phys, key_held, surface>>

LifeFree ==
    /\ instance.live
    /\ FreshInstance
    /\ stuff' = rwebinput_input_free(stuff).stuff
    /\ instance' = [ instance EXCEPT !.live = FALSE ]
    /\ last_op' = <<"free", 0>>
    /\ UNCHANGED <<inj, phys, key_held, surface>>

LifePoll == instance.live /\ Poll

\* state() reads and writes nothing.
LifeState ==
    /\ instance.live
    /\ last_op' = <<"state", 0>>
    /\ UNCHANGED <<instance, mouse, touch, keyboard, keys, stuff, frame_events,
                   frame_sum, latched_sum, wheel_hist, polls, phys, dom_keys, key_held,
                   surface, scen, drag, tap, pre_poll, inj>>

LifeEvent ==
    /\ instance.live
    /\ frame_events < MaxButtonFrameEvents
    /\ \/ \E event_type \in MouseTypes : MouseDispatch(event_type, MouseEventOf(7, 9, 3, 0, 0))
       \/ WheelDispatch([ deltaX |-> 0, deltaY |-> 1 ])
       \/ \E event_type \in TouchTypes :
              \E touches \in TouchLists({0}, { <<100, 100>> }, event_type, surface) :
                  /\ TouchDispatch(event_type, touches)
                  /\ UNCHANGED <<scen, drag, tap>>

\* A keydown or keyup has no listener; an event arriving while no instance
\* exists finds the listeners removed.
LifeUnheardEvent ==
    /\ \/ \E t \in KeyTypes : last_op' = <<t, 0>>
       \/ ~instance.live /\ \E t \in MouseTypes \cup {"wheel"} : last_op' = <<t, 0>>
    /\ UNCHANGED <<instance, mouse, touch, keyboard, keys, stuff, frame_events,
                   frame_sum, latched_sum, wheel_hist, polls, phys, dom_keys, key_held,
                   surface, scen, drag, tap, pre_poll, inj>>

LifeInject ==
    \E user \in LifeUsers, key \in LifeKeys, down \in LifeDowns :
        SimulateInputCall(user, key, down)

NextLife ==
    LifeInit \/ LifeFree \/ LifePoll \/ LifeState \/ LifeEvent \/ LifeUnheardEvent
        \/ LifeInject

SpecLife == InitLife /\ [][NextLife]_vars

\* SpecJoypad: injections of digital buttons, read through state(JOYPAD).
JoypadInput ==
    \E user \in JoypadUsers, key \in JoypadKeys, down \in JoypadDowns :
        SimulateInputCall(user, key, down)

NextJoypad == JoypadInput

SpecJoypad == Init /\ [][NextJoypad]_vars

\* SpecAnalog: injections of stick half-axes, read through state(ANALOG).
AnalogInput ==
    \E user \in AnalogUsers, key \in AnalogKeys, down \in AnalogDowns :
        SimulateInputCall(user, key, down)

NextAnalog == AnalogInput

SpecAnalog == Init /\ [][NextAnalog]_vars

(***************************************************************************)
(* Properties                                                              *)
(***************************************************************************)
MouseX == rwebinput_input_state(mouse, keys, stuff, NoTranslate, 0, "MOUSE", 0, "X")
MouseY == rwebinput_input_state(mouse, keys, stuff, NoTranslate, 0, "MOUSE", 0, "Y")

\* C1: immediately after every poll, whatever mouse, wheel and touch events
\* came before it, the pending delta and the pending scroll are zero on both
\* axes.
C1_PendingZeroAfterPoll ==
    last_op[1] = "poll" =>
        /\ mouse.pending_delta_x = 0
        /\ mouse.pending_delta_y = 0
        /\ mouse.pending_scroll_x = 0
        /\ mouse.pending_scroll_y = 0

\* A poll has just closed a frame that held motion and scroll.
C1_Witness ==
    /\ last_op[1] = "poll"
    /\ mouse.delta_x # 0
    /\ mouse.scroll_y # 0

\* C2: the relative mouse delta is latched per frame: state(MOUSE, X or Y)
\* is 0 before the first poll, and at any moment after a poll it is the sum
\* of the motion received in the frame that poll closed, whatever has
\* arrived since (0 when that frame held no motion).
C2_DeltaLatchedPerFrame ==
    /\ MouseX = latched_sum.x
    /\ MouseY = latched_sum.y
    /\ ~polls => (MouseX = 0 /\ MouseY = 0)

\* Movements 3 and 4 were latched as 7, and new motion has arrived since.
C2_Witness ==
    /\ polls
    /\ last_op[1] = "mousemove"
    /\ latched_sum.x = 7
    /\ frame_sum.x # 0
    /\ MouseX = 7

\* C3: for every button N in 0..4, under every interleaving of mousedown,
\* mouseup and mousemove on any buttons, bit N of mouse.buttons is 1 exactly
\* when the last button event for N was a mousedown: set by a mousedown on
\* N, cleared by the following mouseup on N, untouched by events for other
\* buttons and by mousemove.
C3_ButtonBitFollowsOwnEvents ==
    \A n \in 0..4 :
        /\ (n \in mouse.buttons) <=> (n \in phys)
        /\ last_op = <<"mousedown", n>> => n \in mouse.buttons
        /\ last_op = <<"mouseup", n>> => n \notin mouse.buttons

\* Button 0 has just been released while buttons 2 and 4 stay held.
C3_Witness ==
    /\ last_op = <<"mouseup", 0>>
    /\ mouse.buttons = {2, 4}
    /\ phys = {2, 4}

\* C4: for every user in 0..3 and id in 0..23, is_pressed_hehe(user, id) is
\* the down value of the latest simulate_input(user, id, down), 0 if there
\* was none; injections for another user or id do not change it.
C4_PressedIsLastInjected ==
    \A user \in 0..3, id \in 0..(FirstReservedId - 1) :
        is_pressed_hehe(stuff, user, id)
            = IF <<user, id>> \in DOMAIN inj THEN inj[<<user, id>>] ELSE 0

\* (3, 23) reads 1 while (0, 23) and (3, 0) read 0 and user 4 injected 1.
C4_Witness ==
    /\ is_pressed_hehe(stuff, 3, 23) = 1
    /\ inj[<<0, 23>>] = 0
    /\ inj[<<3, 0>>] = 0
    /\ inj[<<4, 23>>] = 1
    /\ inj[<<0, 0>>] = 1

\* C5: is_pressed_hehe(user, id) is 0 for every id >= 24 and every user, also
\* after simulate_input(user, id, 1) wrote that reserved row.
C5_ReservedRowsReadZero ==
    \A user \in 0..4, id \in FirstReservedId..(StuffRows + 1) :
        is_pressed_hehe(stuff, user, id) = 0

\* Row 24 holds a 1 for user 0, written by simulate_input(0, 24, 1).
C5_Witness ==
    /\ inj[<<0, 24>>] = 1
    /\ stuff[FirstReservedId + 1].down_1 = 1
    /\ is_pressed_hehe(stuff, 0, FirstReservedId) = 0

\* C6: every keydown/keyup DOM event is in the keyboard queue when the next
\* poll runs, and after that poll state(KEYBOARD, id) is 1 exactly for the
\* table keys whose last DOM key event was a keydown.
C6_KeyEventsReachPolledState ==
    last_op[1] = "poll" =>
        /\ pre_poll.events = pre_poll.dom
        /\ \A c \in KeyCodes :
               TranslatedKey[c] # RETROK_UNKNOWN =>
                   rwebinput_input_state(mouse, keys, stuff, NoTranslate, 0, "KEYBOARD", 0,
                                         TranslatedKey[c])
                       = BoolToInt(c \in key_held)

\* The last queued event that translates to id decides keys[id]; with no
\* such event keys[id] keeps its value.
KeyAfterDrain(pre, id) ==
    LET hits == { i \in 1..Len(pre.events) : TranslatedKey[pre.events[i].code] = id }
    IN  IF hits = {} \/ id = RETROK_UNKNOWN \/ id >= RETROK_LAST
        THEN id \in pre.keys
        ELSE pre.events[CHOOSE i \in hits : \A j \in hits : j <= i].type = "keydown"

\* C7: poll drains the keyboard queue in FIFO order: after it, each key's
\* entry is the type of the last queued event that translates to it, or its
\* old value when none does; events translating to UNKNOWN change nothing;
\* the count is 0, so a second poll applies nothing again.
C7_DrainIsFifoNetEffect ==
    last_op[1] = "poll" =>
        /\ keyboard.count = 0
        /\ \A id \in 0..(RETROK_LAST - 1) : (id \in keys) <=> KeyAfterDrain(pre_poll, id)
        /\ \A id \in keys : id \in 1..(RETROK_LAST - 1)

\* A poll found keyup then keydown of ArrowLeft queued, in that order: the
\* key is down after it.
C7_Witness ==
    /\ last_op[1] = "poll"
    /\ Len(pre_poll.events) >= 2
    /\ pre_poll.events[1] = [ type |-> "keyup", code |-> "ArrowLeft" ]
    /\ pre_poll.events[2] = [ type |-> "keydown", code |-> "ArrowLeft" ]
    /\ RETROK_LEFT \in keys
    /\ keyboard.count = 0

\* C8, as claimed: after touchstart and touchend at one point from a quiet
\* state the left button is up; the next touchstart at that point presses
\* it, whatever identifier it carries; the touchend that follows releases it.
C8_DoubleTapAnyIdentifier ==
    /\ scen.step = 2 => ~LeftDown(mouse)
    /\ scen.step = 3 => LeftDown(mouse)
    /\ scen.step = 4 => ~LeftDown(mouse)

\* C8, amended: the first tap only arms (button up, clicked_yet set); the
\* next touchstart at that point presses the left button exactly when it
\* carries the identifier of the first touch; the touchend that follows
\* leaves the button up.
C8_DoubleTapSameIdentifier ==
    /\ scen.step = 2 => (~LeftDown(mouse) /\ touch.clicked_yet)
    /\ scen.step = 3 => (LeftDown(mouse) <=> scen.a = scen.b)
    /\ scen.step = 4 => ~LeftDown(mouse)

\* The second touchstart of finger 1 has pressed the button.
C8_Witness ==
    /\ scen.step = 3
    /\ scen.a = 1
    /\ scen.b = 1
    /\ LeftDown(mouse)

\* C9: from a state with the left button up and no tap armed, a touchstart
\* followed by a touchmove of that finger more than 25 away (in x + y)
\* cancels the tap (last_touchdown_id = -1); the following touchend arms
\* nothing and the left button stays up.
C9_DragCancelsTap ==
    /\ drag.step = 2 => (touch.last_touchdown_id = -1 /\ ~LeftDown(mouse))
    /\ drag.step = 3 => (~touch.clicked_yet /\ ~LeftDown(mouse))

InjectedDown == { c \in DOMAIN inj : c[1] \in 0..3 /\ inj[c] # 0 }

\* Bit i of the 16-bit pattern an int16_t holds.
BitOf(r, i) == ((r % 65536) \div Pow2(i)) % 2 = 1

JoypadQuery(port, id) ==
    rwebinput_input_state(mouse, keys, stuff, NoTranslate, port, "JOYPAD", 0, id)

\* The bit-by-bit part of C11, and its single-press part with the value the
\* mask query is to return for key k given by MaskOf.
JoypadContract(MaskOf(_)) ==
    /\ \A port \in 0..4 :
          /\ \A i \in 0..(RARCH_FIRST_CUSTOM_BIND - 1) :
                 BitOf(JoypadQuery(port, RETRO_DEVICE_ID_JOYPAD_MASK), i)
                     <=> (is_pressed_hehe(stuff, port, i) # 0)
          /\ \A id \in 0..(RARCH_BIND_LIST_END - 1) :
                 JoypadQuery(port, id)
                     = BoolToInt(is_pressed_hehe(stuff, port, id) # 0)
    /\ \A c \in InjectedDown :
          (InjectedDown = {c} /\ inj[c] = 1 /\ c[2] < RARCH_FIRST_CUSTOM_BIND) =>
              /\ JoypadQuery(c[1], RETRO_DEVICE_ID_JOYPAD_MASK) = MaskOf(c[2])
              /\ JoypadQuery(c[1], c[2]) = 1
              /\ \A port \in 0..4 \ {c[1]} :
                     /\ JoypadQuery(port, RETRO_DEVICE_ID_JOYPAD_MASK) = 0
                     /\ JoypadQuery(port, c[2]) = 0

ShiftedOne(k) == Pow2(k)
ShiftedOneInt16(k) == IF k = 15 THEN -32768 ELSE Pow2(k)

\* C11, as claimed: bit i of state(port, JOYPAD, MASK) is set exactly when
\* is_pressed_hehe(port, i) is nonzero, state(port, JOYPAD, id) is 1 exactly
\* when is_pressed_hehe(port, id) is nonzero, and with key k < 16 of port u
\* the only one pressed the mask query on u returns 1 << k, the query for k
\* returns 1 and both return 0 on every other port.
C11_JoypadMaskIsOneShiftK == JoypadContract(ShiftedOne)

\* C11, amended: the same, the mask query returning 1 << k for k < 15 and,
\* for k = 15, the int16_t holding that bit alone, -32768.
C11_JoypadMaskAsInt16 == JoypadContract(ShiftedOneInt16)

\* Only R3 of port 0 is pressed (user 4, outside the table's columns,
\* injected 2 for UP): the mask on port 0 has bit 15 alone.
C11_Witness ==
    /\ InjectedDown = { <<0, 15>> }
    /\ inj[<<0, 15>>] = 1
    /\ inj[<<4, 4>>] = 2
    /\ JoypadQuery(0, RETRO_DEVICE_ID_JOYPAD_MASK) = -32768
    /\ JoypadQuery(0, 15) = 1
    /\ JoypadQuery(1, RETRO_DEVICE_ID_JOYPAD_MASK) = 0

\* The value the latest injection left for (user, key), 0 when there was
\* none or the user has no column.
InjOf(user, key) ==
    IF user \in 0..3 /\ <<user, key>> \in DOMAIN inj THEN inj[<<user, key>>] ELSE 0

AnalogQuery(port, idx, id) ==
    rwebinput_input_state(mouse, keys, stuff, NoTranslate, port, "ANALOG", idx, id)

\* C12: state(port, ANALOG, index, id) is is_pressed(port, id_plus) minus
\* is_pressed(port, id_minus) for the pair the host maps (index, id) to,
\* whatever is injected for other ports; when every injected value is 0 or
\* 1 it is +1 with only the plus half down, -1 with only the minus half
\* down, 0 with both or neither, and so always one of -1, 0, +1.
C12_AnalogIsPlusMinusMinus ==
    \A port \in 0..4, idx \in 0..1, id \in 0..1 :
        LET b == input_conv_analog_id_to_bind_id(idx, id)
            plus == InjOf(port, b.id_plus)
            minus == InjOf(port, b.id_minus)
            r == AnalogQuery(port, idx, id)
        IN  /\ r = plus - minus
            /\ (\A c \in DOMAIN inj : inj[c] \in {0, 1}) =>
                   /\ r \in {-1, 0, 1}
                   /\ (plus = 1 /\ minus = 0) => r = 1
                   /\ (plus = 0 /\ minus = 1) => r = -1
                   /\ (plus = minus) => r = 0

\* Port 1 holds only the left stick's X plus half, port 0 only its minus
\* half and both halves of the right stick's Y.
C12_Witness ==
    /\ \A c \in DOMAIN inj : inj[c] \in {0, 1}
    /\ inj[<<1, RARCH_ANALOG_LEFT_X_PLUS>>] = 1
    /\ inj[<<1, RARCH_ANALOG_LEFT_X_MINUS>>] = 0
    /\ inj[<<0, RARCH_ANALOG_LEFT_X_MINUS>>] = 1
    /\ inj[<<0, RARCH_ANALOG_LEFT_X_PLUS>>] = 0
    /\ inj[<<0, RARCH_ANALOG_RIGHT_Y_PLUS>>] = 1
    /\ inj[<<0, RARCH_ANALOG_RIGHT_Y_MINUS>>] = 1
    /\ AnalogQuery(1, 0, 0) = 1
    /\ AnalogQuery(0, 0, 0) = -1
    /\ AnalogQuery(0, 1, 1) = 0

PointerQuery(tr, device, idx, id) ==
    rwebinput_input_state(mouse, keys, stuff, tr, 0, device, idx, id)

\* C13: state(POINTER or POINTER_SCREEN, index, id) is 0 for every id when
\* index is not 0 or the host's viewport translation fails; otherwise, with
\* inside = both selected coordinates (screen-relative for POINTER_SCREEN,
\* video-relative for POINTER) within -32700..32700, POINTER_X and POINTER_Y
\* are the coordinate when inside and 0 when not, POINTER_PRESSED is the left
\* button bit whether inside or not, and the off-screen query is 1 exactly
\* when not inside.
C13_PointerQueries ==
    \A tr \in TranslateResults, device \in PointerDevices, idx \in 0..1 :
        LET cx == IF device = "POINTER_SCREEN" THEN tr.res_screen_x ELSE tr.res_x
            cy == IF device = "POINTER_SCREEN" THEN tr.res_screen_y ELSE tr.res_y
            inside == {cx, cy} \subseteq (-PointerEdgeDetect)..PointerEdgeDetect
        IN  IF idx # 0 \/ ~tr.ok
            THEN \A id \in PointerIds : PointerQuery(tr, device, idx, id) = 0
            ELSE /\ PointerQuery(tr, device, idx, "POINTER_X") = (IF inside THEN cx ELSE 0)
                 /\ PointerQuery(tr, device, idx, "POINTER_Y") = (IF inside THEN cy ELSE 0)
                 /\ PointerQuery(tr, device, idx, "POINTER_PRESSED")
                        = BoolToInt(RWEBINPUT_MOUSE_BTNL \in phys)
                 /\ PointerQuery(tr, device, idx, "IS_OFFSCREEN") = BoolToInt(~inside)

\* The left button is held; a translation that puts the video-relative x
\* beyond the bound and the screen-relative pair inside reads pressed and
\* off-screen for POINTER, pressed and on-screen for POINTER_SCREEN, and a
\* failed translation reads 0.
C13_Witness ==
    LET tr == [ ok |-> TRUE, res_x |-> PointerEdgeDetect + 1, res_y |-> 5,
                res_screen_x |-> 9, res_screen_y |-> PointerEdgeDetect ]
    IN  /\ last_op = <<"mousedown", 0>>
        /\ RWEBINPUT_MOUSE_BTNL \in phys
        /\ tr \in TranslateResults
        /\ PointerQuery(tr, "POINTER", 0, "POINTER_PRESSED") = 1
        /\ PointerQuery(tr, "POINTER", 0, "IS_OFFSCREEN") = 1
        /\ PointerQuery(tr, "POINTER", 0, "POINTER_Y") = 0
        /\ PointerQuery(tr, "POINTER_SCREEN", 0, "IS_OFFSCREEN") = 0
        /\ PointerQuery(tr, "POINTER_SCREEN", 0, "POINTER_Y") = PointerEdgeDetect
        /\ PointerQuery([ tr EXCEPT !.ok = FALSE ], "POINTER", 0, "POINTER_PRESSED") = 0

\* The retro key the static table pairs with a code.
PairedKey(code) ==
    rwebinput_key_to_code_map[
        CHOOSE i \in 1..Len(rwebinput_key_to_code_map) :
            rwebinput_key_to_code_map[i][1] = code ][3]

\* The built table is the static table's length plus the terminator.
KeyMapHasTerminator ==
    LET n == Len(rwebinput_key_to_code_map)
    IN  /\ Len(rarch_key_map_rwebinput) = n + 1
        /\ rarch_key_map_rwebinput[n + 1] = [ rk |-> RETROK_UNKNOWN, sym |-> CrcZero ]

\* No two entries of the built table carry the same hash.
KeyMapHashesDistinct ==
    \A i, j \in 1..Len(rwebinput_key_to_code_map) :
        i # j => rarch_key_map_rwebinput[i].sym # rarch_key_map_rwebinput[j].sym

\* Hashing a code of the static table and translating the hash gives the
\* retro key of its entry.
KeyMapTranslatesEveryCode ==
    \A i \in 1..Len(rwebinput_key_to_code_map) :
        input_keymaps_translate_keysym_to_rk(
            encoding_crc32(rwebinput_key_to_code_map[i][2]))
          = rwebinput_key_to_code_map[i][3]

\* C14: in the table init builds, the hashes of the static table's code
\* strings are pairwise distinct, the last entry is the terminator
\* (0, UNKNOWN), and hashing any code of the static table and translating the
\* hash yields the retro key the table pairs it with, so that a queued event
\* with that code sets or clears exactly that key at poll.
C14_EveryTableCodeTranslates ==
    /\ KeyMapHasTerminator
    /\ KeyMapHashesDistinct
    /\ KeyMapTranslatesEveryCode
    /\ (last_op[1] = "poll" /\ Len(pre_poll.events) = 1) =>
           LET e == pre_poll.events[1]
           IN  keys = IF e.type = "keydown"
                      THEN pre_poll.keys \cup {PairedKey(e.code)}
                      ELSE pre_poll.keys \ {PairedKey(e.code)}

\* A poll has applied the keydown of "ArrowLeft", the key being up before.
C14_Witness ==
    /\ last_op[1] = "poll"
    /\ pre_poll.events = << [ type |-> "keydown", code |-> "ArrowLeft" ] >>
    /\ pre_poll.keys = {}
    /\ keys = {RETROK_LEFT}

\* C15: while a finger is tracked, a touch event whose selected changed
\* touch carries another identifier leaves every field of the touch state
\* and of the mouse state unchanged.
C15_NonTrackedFingerIgnored ==
    [][ ( /\ touch.down
          /\ last_op'[1] \in TouchTypes
          /\ last_op'[2] # touch.touch_id )
        => (touch' = touch /\ mouse' = mouse) ]_vars

\* C16, as claimed: in every state reached by mouse and touch events in any
\* order, bits 1..4 of mouse.buttons are set exactly when the last mouse
\* button event for them was a mousedown; bit 0 is set while the physical
\* left button is held, and clear while it is not held and no finger is on
\* the surface to hold a synthesised press.
C16_BitsFollowMouseButtons ==
    /\ \A n \in 1..4 : (n \in mouse.buttons) <=> (n \in phys)
    /\ RWEBINPUT_MOUSE_BTNL \in phys => LeftDown(mouse)
    /\ (RWEBINPUT_MOUSE_BTNL \notin phys /\ surface = {}) => ~LeftDown(mouse)

\* C16, amended: bits 1..4 are set exactly when the last mouse button event
\* for them was a mousedown; bit 0 is set by a mousedown of button 0,
\* cleared by a mouseup of button 0, and otherwise goes up only at a
\* touchstart and down only at a touchend or touchcancel, whether the
\* physical left button is held or not.
C16_BitZeroSharedWithTouch ==
    [][ /\ \A n \in 1..4 : (n \in mouse'.buttons) <=> (n \in phys')
        /\ last_op' = <<"mousedown", 0>> => LeftDown(mouse')
        /\ last_op' = <<"mouseup", 0>> => ~LeftDown(mouse')
        /\ (LeftDown(mouse') /\ ~LeftDown(mouse)) =>
               (last_op' = <<"mousedown", 0>> \/ last_op'[1] = "touchstart")
        /\ (~LeftDown(mouse') /\ LeftDown(mouse)) =>
               (last_op' = <<"mouseup", 0>> \/ last_op'[1] \in {"touchend", "touchcancel"})
      ]_vars

\* A touchend has cleared bit 0 while the physical left button is held and
\* the right button's bit stayed set.
C16_Witness ==
    /\ last_op[1] = "touchend"
    /\ phys = {0, 2}
    /\ mouse.buttons = {2}

\* C17: whenever last_touchdown_id is the identifier of a finger on the
\* surface whose touchstart opened a tap sequence (it found no tap armed),
\* last_touchdown_location is canvasX + canvasY of that touchstart; this
\* includes the first touch after init, whatever its identifier.
C17_LocationIsInitiatingSum ==
    ( /\ tap.phase = "started"
      /\ ~tap.armed
      /\ tap.f \in surface
      /\ touch.last_touchdown_id = tap.f )
        => touch.last_touchdown_location = tap.sum0

\* C18: at most one finger is tracked.  While touch.down is true, touch_id
\* and last_canvasX/Y change only at a touch event whose selected changed
\* touch has the identifier touch_id, and down is cleared only at a touchend
\* or touchcancel of that identifier; a touchstart adopts its finger as the
\* tracked one when down is false, and keeps the tracked one otherwise.
TrackedFields(t) == <<t.touch_id, t.last_canvasX, t.last_canvasY>>

C18_OneTrackedFinger ==
    [][ /\ (touch.down /\ TrackedFields(touch') # TrackedFields(touch)) =>
               (last_op'[1] \in TouchTypes /\ last_op'[2] = touch.touch_id)
        /\ (touch.down /\ ~touch'.down) =>
               (last_op'[1] \in {"touchend", "touchcancel"} /\ last_op'[2] = touch.touch_id)
        /\ (touch'.down /\ ~touch.down) => last_op'[1] = "touchstart"
        /\ last_op'[1] = "touchstart" =>
               /\ touch'.down
               /\ touch'.touch_id = IF touch.down THEN touch.touch_id ELSE last_op'[2]
      ]_vars

\* A second finger has landed at another point while finger 0 is tracked:
\* finger 0 is still the tracked one, at the position of its last event.
C18_Witness ==
    /\ last_op = <<"touchstart", 1>>
    /\ surface = {0, 1}
    /\ touch.down
    /\ touch.touch_id = 0
    /\ <<touch.last_canvasX, touch.last_canvasY>> = <<100, 100>>
    /\ touch.last_touchdown_location = 20

WheelQuery(id) ==
    rwebinput_input_state(mouse, keys, stuff, NoTranslate, 0, "MOUSE", 0, id)

\* C19, as claimed: every wheel event with a nonzero deltaY makes exactly one
\* of WHEELUP and WHEELDOWN return 1 during the frame opened by the first
\* poll after it (likewise deltaX and the horizontal queries); after a poll
\* with no wheel event since the previous poll the four queries return 0;
\* WHEELUP and WHEELDOWN are never both 1.
C19_EveryWheelEventOneQuery ==
    /\ wheel_hist.closed.ny > 0 =>
           WheelQuery("WHEELUP") + WheelQuery("WHEELDOWN") = 1
    /\ wheel_hist.closed.nx > 0 =>
           WheelQuery("HORIZ_WHEELUP") + WheelQuery("HORIZ_WHEELDOWN") = 1
    /\ wheel_hist.closed.n = 0 =>
           \A id \in {"WHEELUP", "WHEELDOWN", "HORIZ_WHEELUP", "HORIZ_WHEELDOWN"} :
               WheelQuery(id) = 0
    /\ ~(WheelQuery("WHEELUP") = 1 /\ WheelQuery("WHEELDOWN") = 1)

\* C19, amended: between two polls the wheel queries answer for the sum of
\* the deltas of the wheel events of the frame the first of them closed:
\* WHEELUP is 1 exactly when the deltaY sum is negative, WHEELDOWN when it is
\* positive (deltaX for the horizontal pair), whatever wheel events arrive
\* meanwhile; so a frame with one event of nonzero deltaY shows exactly one
\* of the two, events whose deltas cancel show neither, a frame with no
\* wheel event shows none of the four, and no pair is ever both 1.
C19_WheelQueriesFollowFrameSum ==
    /\ WheelQuery("WHEELUP") = BoolToInt(wheel_hist.closed.y < 0)
    /\ WheelQuery("WHEELDOWN") = BoolToInt(wheel_hist.closed.y > 0)
    /\ WheelQuery("HORIZ_WHEELUP") = BoolToInt(wheel_hist.closed.x < 0)
    /\ WheelQuery("HORIZ_WHEELDOWN") = BoolToInt(wheel_hist.closed.x > 0)
    /\ wheel_hist.closed.n = 0 => (wheel_hist.closed.x = 0 /\ wheel_hist.closed.y = 0)

\* Two wheel events of one frame cancelled in deltaY: after the poll neither
\* vertical query answers, the horizontal one does, and a wheel event of the
\* next frame has not changed that.
C19_Witness ==
    /\ last_op[1] = "wheel"
    /\ wheel_hist.closed.ny = 2
    /\ wheel_hist.closed.y = 0
    /\ wheel_hist.open.y = -1
    /\ WheelQuery("WHEELUP") = 0
    /\ WheelQuery("WHEELDOWN") = 0
    /\ WheelQuery("HORIZ_WHEELDOWN") = 1

ScreenX == rwebinput_input_state(mouse, keys, stuff, NoTranslate, 0, "MOUSE_SCREEN", 0, "X")
ScreenY == rwebinput_input_state(mouse, keys, stuff, NoTranslate, 0, "MOUSE_SCREEN", 0, "Y")

\* C20, as claimed: the deltas of a frame accumulate without saturation,
\* state(MOUSE, X/Y) returns the current delta and state(MOUSE_SCREEN, X/Y)
\* the live position, equal to the stored value also when it lies outside
\* the signed 16-bit range.
C20_StateReturnsStoredValue ==
    /\ mouse.delta_x = latched_sum.x
    /\ mouse.delta_y = latched_sum.y
    /\ MouseX = mouse.delta_x
    /\ MouseY = mouse.delta_y
    /\ ScreenX = mouse.x
    /\ ScreenY = mouse.y

\* C20, amended: the deltas of a frame accumulate without saturation in the
\* stored fields; state(MOUSE, X/Y) and state(MOUSE_SCREEN, X/Y) return the
\* stored delta and position converted to int16_t: a value of the signed
\* 16-bit range that differs from the stored one by a multiple of 65536, so
\* the stored value itself exactly when that lies in the range.
C20_StateReturnsStoredAsInt16 ==
    /\ mouse.delta_x = latched_sum.x
    /\ mouse.delta_y = latched_sum.y
    /\ \A q \in { <<MouseX, mouse.delta_x>>, <<MouseY, mouse.delta_y>>,
                  <<ScreenX, mouse.x>>, <<ScreenY, mouse.y>> } :
           /\ q[1] \in -32768..32767
           /\ (q[1] - q[2]) % 65536 = 0

\* Two moves of 30000 were latched as the delta 60000 and the pointer is at
\* (40000, -40000): the queries return the wrapped values.
C20_Witness ==
    /\ polls
    /\ mouse.delta_x = 60000
    /\ MouseX = -5536
    /\ MouseY = 5536
    /\ mouse.x = 40000
    /\ ScreenX = -25536
    /\ mouse.y = -40000
    /\ ScreenY = 25536

\* C21: the virtual gamepad table outlives every driver instance: init,
\* poll, state, free and every mouse, wheel, touch and keyboard event leave
\* every cell unchanged, only simulate_input changes one, and
\* is_pressed_hehe returns the last injected value whether it was injected
\* before init, while an instance lived, or before a free and a re-init.
C21_TableOutlivesDriver ==
    [][ /\ stuff' # stuff => last_op'[1] = "simulate_input"
        /\ \A user \in LifeUsers, key \in LifeKeys :
               is_pressed_hehe(stuff', user, key) = inj'[<<user, key>>]
      ]_vars

\* The second instance has just been built; the table still holds the 1
\* injected for user 0 and the 0 of user 3.
C21_Witness ==
    /\ last_op = <<"init", 0>>
    /\ instance = [ live |-> TRUE, inits |-> 2 ]
    /\ inj[<<0, 23>>] = 1
    /\ is_pressed_hehe(stuff, 0, 23) = 1
    /\ is_pressed_hehe(stuff, 3, 23) = 0

\* C22: a touch-synthesised press of the left button never gets stuck: once
\* every finger has left the surface, and no physical mouse button is held,
\* bit 0 of mouse.buttons is 0.
C22_NoStuckTouchPress ==
    (surface = {} /\ phys = {}) => ~LeftDown(mouse)

\* C23: only the tracked finger moves the mouse: a touchmove that arrives
\* while no finger is tracked, or whose moved touch is not the tracked
\* finger, leaves mouse.x, mouse.y, the pending deltas and last_canvasX/Y
\* unchanged.
C23_OnlyTrackedFingerMovesMouse ==
    [][ ( /\ last_op'[1] = "touchmove"
          /\ ~(touch.down /\ last_op'[2] = touch.touch_id) )
        => /\ <<mouse'.x, mouse'.y>> = <<mouse.x, mouse.y>>
           /\ <<mouse'.pending_delta_x, mouse'.pending_delta_y>>
                  = <<mouse.pending_delta_x, mouse.pending_delta_y>>
           /\ <<touch'.last_canvasX, touch'.last_canvasY>>
                  = <<touch.last_canvasX, touch.last_canvasY>>
      ]_vars
====
